---- MODULE Spec2Model ----
(***************************************************************************)
(* exaOCR: the per-document conversion pipeline of app.py (process_file,   *)
(* process_single_page, update_progress and the progress registry), its    *)
(* request handlers (upload_files, get_progress, download_markdown,        *)
(* cleanup_file) and the single-shot pipeline of core.py, as a state       *)
(* machine.                                                                *)
(*                                                                         *)
(* A Python string is modelled by the list str.split('\n') gives for it:   *)
(* a non-empty sequence of lines, the empty string being <<"">>.  An       *)
(* Optional value is a sequence of length 0 (None) or 1.                   *)
(***************************************************************************)
EXTENDS Integers, Sequences, FiniteSets, TLC

\* ------------------------------------------------------------------ bounds
MaxPages == 3
MaxLivePages == 2

\* ------------------------------------------------------- program constants
AlreadyHadText == 15
MaxPageWorkers == 8

\* ------------------------------------------------------------ Python values
None == <<>>
Some(x) == <<x>>
EmptyStr == <<"">>

\* s + t on strings: the last line of s runs on into the first line of t
StrCat(s, t) ==
    LET cat[a \in Seq(STRING) \X Seq(STRING)] ==
            SubSeq(a[1], 1, Len(a[1]) - 1) \o <<a[1][Len(a[1])] \o a[2][1]>> \o Tail(a[2])
    IN  cat[<<s, t>>]

\* a line that holds nothing but whitespace
IsBlank(line) == line \in {"", " "}

\* bool(s.strip()) of a string
HasContent(s) == \E i \in 1..Len(s) : ~IsBlank(s[i])

\* bool(x) of an Optional[str]: None and "" are falsy
Truthy(opt) == opt # None /\ opt[1] # EmptyStr

\* flag in args
Includes(args, flag) == \E i \in 1..Len(args) : args[i] = flag

\* --------------------------------------------------- process_single_page
\* the command line with has_text tested before force_ocr
OcrArgsTextFirst(page_num, force_ocr, has_text) ==
    LET base == <<"ocrmypdf", "-l", "eng", "--tesseract-timeout", "300",
                  "--jobs", "1", "--optimize", "0", "--output-type", "pdf",
                  "--tesseract-pagesegmode", "1">>
        policy == IF has_text THEN <<"--skip-text">>
                  ELSE IF force_ocr THEN <<"--force-ocr">>
                  ELSE <<"--deskew", "--clean">>
    IN  base \o policy \o <<"page_" \o ToString(page_num + 1) \o ".pdf",
                            "ocr_page_" \o ToString(page_num + 1) \o ".pdf">>

\* the ocrmypdf command line of app.py
OcrArgs(page_num, force_ocr, has_text) ==
    LET base == <<"ocrmypdf", "-l", "eng", "--tesseract-timeout", "300",
                  "--jobs", "1", "--optimize", "0", "--output-type", "pdf",
                  "--tesseract-pagesegmode", "1">>
        policy == IF force_ocr THEN <<"--force-ocr">>
                  ELSE IF has_text THEN <<"--skip-text">>
                  ELSE <<"--deskew", "--clean">>
    IN  base \o policy \o <<"page_" \o ToString(page_num + 1) \o ".pdf",
                            "ocr_page_" \o ToString(page_num + 1) \o ".pdf">>

\* f"# Page {page_num + 1}\n\n{body}\n\n---\n\n"
PageFragment(page_num, body) ==
    StrCat(StrCat(<<"# Page " \o ToString(page_num + 1), "", "">>, body),
           <<"", "", "---", "", "">>)

\* the lines of a text that hold a pipe
PipeLines(s) == {i \in 1..Len(s) : s[i] \in {"a | b", "| a | b |"}}

\* what enhance_table_detection and pymupdf4llm.to_markdown may return
EnhancedTexts == {EmptyStr, <<"a | b", "">>, <<"a | b", "prose", "prose", "">>}
PrimaryTexts == {EmptyStr, <<"| a | b |", "markdown  text">>}

\* the subprocess.run outcomes of one engine invocation
OcrOutcomes == [how : {"exit"}, returncode : {0, 2, AlreadyHadText}]
               \cup [how : {"timeout", "oserror"}, returncode : {0}]

\* the behaviour of the collaborators for one page: an Optional text is None
\* when the collaborator raises
PageEnvs == [ocr : OcrOutcomes,
             out_exists : BOOLEAN,
             primary : {None} \cup {Some(t) : t \in PrimaryTexts},
             enhanced : {None} \cup {Some(t) : t \in EnhancedTexts},
             orig_enhanced : {None} \cup {Some(t) : t \in EnhancedTexts}]

PageError(page_num, what) == [page |-> page_num + 1, what |-> what]

PageResult(page_num, markdown, error, ocr_calls) ==
    [page_num |-> page_num, markdown |-> markdown, error |-> error,
     ocr_calls |-> ocr_calls]

\* the engine failed and is run once more with --force-ocr before the fallback
OcrFailedRetried(page_num, env, calls) ==
    LET retry == [k \in 1..Len(calls[1]) |->
                     IF calls[1][k] \in {"--skip-text", "--deskew", "--clean"}
                     THEN "--force-ocr" ELSE calls[1][k]]
    IN  PageResult(page_num, None,
                   Some(PageError(page_num, "OCR failed with exit code")),
                   calls \o <<retry>>)

\* lines 244-256: the engine failed, extract from the original page
OcrFailedFallback(page_num, env, calls) ==
    IF env.orig_enhanced = None
    THEN PageResult(page_num, None, Some(PageError(page_num, "CalledProcessError")), calls)
    ELSE IF HasContent(env.orig_enhanced[1])
    THEN PageResult(page_num, Some(PageFragment(page_num, env.orig_enhanced[1])), None, calls)
    ELSE PageResult(page_num,
                    Some(PageFragment(page_num, <<"[OCR failed - no text extracted]">>)),
                    Some(PageError(page_num, "OCR failed with exit code")), calls)

\* Markdown extraction that reports no error whatever the extractors do
ExtractMarkdownNeverFails(page_num, env, calls) ==
    PageResult(page_num,
               IF env.primary # None /\ HasContent(env.primary[1])
               THEN Some(PageFragment(page_num, env.primary[1])) ELSE Some(EmptyStr),
               None, calls)

\* lines 258-305: Markdown extraction of the page
ExtractMarkdown(page_num, env, calls) ==
    LET enhanced == IF env.out_exists THEN env.enhanced ELSE env.orig_enhanced
    IN  IF env.primary # None /\ enhanced # None
        THEN LET page_markdown == env.primary[1]
                 enhanced_text == enhanced[1]
                 enhanced_lines == PipeLines(enhanced_text)
                 use_enhanced == /\ enhanced_text # EmptyStr
                                 /\ enhanced_lines # {}
                                 /\ 10 * Cardinality(enhanced_lines) < 3 * Len(enhanced_text)
                 final_markdown == IF use_enhanced THEN enhanced_text ELSE page_markdown
             IN  IF HasContent(final_markdown)
                 THEN PageResult(page_num, Some(PageFragment(page_num, final_markdown)), None, calls)
                 ELSE PageResult(page_num, Some(EmptyStr), None, calls)
        ELSE IF enhanced = None
        THEN PageResult(page_num, Some(EmptyStr),
                        Some(PageError(page_num, "Extraction failed")), calls)
        ELSE IF HasContent(enhanced[1])
        THEN PageResult(page_num, Some(PageFragment(page_num, enhanced[1])), None, calls)
        ELSE PageResult(page_num, Some(EmptyStr), None, calls)

\* process_single_page taking exit code 15 for a failure like any other
ProcessSinglePageExit15Fails(page_num, force_ocr, has_text, env) ==
    LET calls == <<OcrArgs(page_num, force_ocr, has_text)>>
    IN  CASE env.ocr.how = "timeout" ->
               PageResult(page_num, None, Some(PageError(page_num, "OCR timeout")), calls)
          [] env.ocr.how = "oserror" ->
               PageResult(page_num, None, Some(PageError(page_num, "OSError")), calls)
          [] env.ocr.how = "exit" /\ env.ocr.returncode = 0 ->
               ExtractMarkdown(page_num, env, calls)
          [] OTHER -> OcrFailedFallback(page_num, env, calls)

\* process_single_page running the engine a second time after a timeout
ProcessSinglePageTimeoutRetried(page_num, force_ocr, has_text, env) ==
    LET calls == <<OcrArgs(page_num, force_ocr, has_text)>>
    IN  CASE env.ocr.how = "timeout" ->
               PageResult(page_num, None, Some(PageError(page_num, "OCR timeout")),
                          calls \o calls)
          [] env.ocr.how = "oserror" ->
               PageResult(page_num, None, Some(PageError(page_num, "OSError")), calls)
          [] env.ocr.how = "exit" /\ env.ocr.returncode \in {0, AlreadyHadText} ->
               ExtractMarkdown(page_num, env, calls)
          [] OTHER -> OcrFailedFallback(page_num, env, calls)

\* process_single_page: the result tuple, with the engine invocations made
ProcessSinglePage(page_num, force_ocr, has_text, env) ==
    LET calls == <<OcrArgs(page_num, force_ocr, has_text)>>
    IN  CASE env.ocr.how = "timeout" ->
               PageResult(page_num, None, Some(PageError(page_num, "OCR timeout")), calls)
          [] env.ocr.how = "oserror" ->
               PageResult(page_num, None, Some(PageError(page_num, "OSError")), calls)
          [] env.ocr.how = "exit" /\ env.ocr.returncode \in {0, AlreadyHadText} ->
               ExtractMarkdown(page_num, env, calls)
          [] OTHER -> OcrFailedFallback(page_num, env, calls)

\* ------------------------------------------------------------ clean_markdown
\* line.strip()
StripLine(line) == IF IsBlank(line) THEN "" ELSE line

\* line.count('|')
PipeCount(line) == CASE line = "a | b" -> 1
                     [] line = "| a | b |" -> 3
                     [] OTHER -> 0

\* [c.strip() for c in line.split('|') if c.strip()]
Cells(line) == IF line = "| a | b |" THEN <<"a", "b">>
               ELSE IF line = "a | b" THEN <<"a", "b">>
               ELSE <<line>>

\* " | ".join(cells)
RECURSIVE JoinCells(_)
JoinCells(cells) ==
    IF Len(cells) = 0 THEN ""
    ELSE IF Len(cells) = 1 THEN cells[1]
    ELSE cells[1] \o " | " \o JoinCells(Tail(cells))

\* re.sub(r'\s+', ' ', line)
NormalizeSpaces(line) == IF line = "markdown  text" THEN "markdown text" ELSE line

IsHeader(line) == line \in {"# Page " \o ToString(k) : k \in 1..(MaxPages + 1)}

\* the first loop of clean_markdown from lines[from] on, given cleaned_lines
\* and in_table: a function, so that each turn works on values
CleanLines[a \in Seq(STRING) \X Nat \X Seq(STRING) \X BOOLEAN] ==
    LET lines == a[1]
        from == a[2]
        cleaned_lines == a[3]
        in_table == a[4]
    IN  IF from > Len(lines) THEN cleaned_lines
        ELSE LET line == StripLine(lines[from])
                 pipe_count == PipeCount(line)
                 cells == Cells(line)
             IN  IF line = ""
                 THEN CleanLines[<<lines, from + 1,
                                   IF /\ cleaned_lines # <<>>
                                      /\ cleaned_lines[Len(cleaned_lines)] # ""
                                   THEN Append(cleaned_lines, "") ELSE cleaned_lines,
                                   in_table>>]
                 ELSE IF pipe_count >= 3
                 THEN IF 2 <= Len(cells) /\ Len(cells) <= 10
                      THEN CleanLines[<<lines, from + 1,
                                        Append(cleaned_lines,
                                               "| " \o JoinCells(cells) \o " |"),
                                        TRUE>>]
                      ELSE CleanLines[<<lines, from + 1,
                                        Append(cleaned_lines, NormalizeSpaces(line)),
                                        FALSE>>]
                 ELSE LET closed == IF in_table /\ pipe_count > 0
                                    THEN Append(cleaned_lines, "") ELSE cleaned_lines
                          kept == IF IsHeader(line) THEN line ELSE NormalizeSpaces(line)
                      IN  CleanLines[<<lines, from + 1, Append(closed, kept),
                                       IF in_table /\ pipe_count > 0 THEN FALSE
                                       ELSE in_table>>]

\* the second loop: at most one empty line in a row
SqueezeEmpty[a \in Seq(STRING) \X BOOLEAN] ==
    LET lines == a[1]
        prev_empty == a[2]
    IN  IF lines = <<>> THEN <<>>
        ELSE IF lines[1] = ""
        THEN (IF prev_empty THEN <<>> ELSE <<"">>) \o SqueezeEmpty[<<Tail(lines), TRUE>>]
        ELSE <<lines[1]>> \o SqueezeEmpty[<<Tail(lines), FALSE>>]

\* "\n".join(lines).strip(), every line of lines being stripped already
JoinStrip[lines \in Seq(STRING)] ==
    IF lines = <<>> THEN EmptyStr
    ELSE IF lines[1] = "" THEN JoinStrip[Tail(lines)]
    ELSE IF lines[Len(lines)] = "" THEN JoinStrip[SubSeq(lines, 1, Len(lines) - 1)]
    ELSE lines

CleanMarkdown(md_text) ==
    IF md_text = EmptyStr THEN EmptyStr
    ELSE JoinStrip[SqueezeEmpty[<<CleanLines[<<md_text, 1, <<>>, FALSE>>], FALSE>>]]

\* "".join(all_markdown), all_markdown a list indexed from 0
RECURSIVE JoinFrom(_, _)
JoinFrom(all_markdown, i) ==
    IF i \notin DOMAIN all_markdown THEN EmptyStr
    ELSE StrCat(all_markdown[i], JoinFrom(all_markdown, i + 1))

JoinAll(all_markdown) == JoinFrom(all_markdown, 0)

\* the collaborators' behaviours the pipeline is run against: every engine
\* outcome and every primary text, the output file written and the layout
\* heuristic finding nothing
PipelineEnvs == {env \in PageEnvs : /\ env.out_exists
                                    /\ env.primary # None
                                    /\ env.enhanced = Some(EmptyStr)
                                    /\ env.orig_enhanced = Some(EmptyStr)}

\* the one behaviour a many-paged run is given: the engine succeeds and the
\* primary extractor finds text
PoolEnvs == {env \in PipelineEnvs : /\ env.ocr = [how |-> "exit", returncode |-> 0]
                                     /\ HasContent(env.primary[1])}

\* what process_single_page can return for a page of a pipeline run
PageResults(envs, page_num, force_ocr, has_text) ==
    {ProcessSinglePage(page_num, force_ocr, has_text, env) : env \in envs}

\* the extension classes process_file tells apart
Exts == {"pdf", "image", "office", "other"}

\* an extension that is none of the known ones taken for a PDF
IsPdfOrUnknown(ext) == ext \in {"pdf", "other"}

\* line 331: ext == '.pdf'
IsPdf(ext) == ext = "pdf"

\* ------------------------------------------------------- core.process_file
\* the ocrmypdf command line of core.py
CoreOcrArgs(force_ocr) ==
    <<"ocrmypdf", "-l", "eng", "--deskew", "--clean", "--tesseract-timeout", "300",
      "--jobs", "2">>
    \o <<IF force_ocr THEN "--force-ocr" ELSE "--skip-text">>
    \o <<"input.pdf", "ocr_output.pdf">>

\* the behaviour of core.py's collaborators for one document
CoreEnvs == [convert : {"ok", "failed", "missing"},
             ocr : [how : {"exit"}, returncode : {0, 2, AlreadyHadText}],
             stderr_empty : BOOLEAN,
             page_count : 1..MaxPages,
             primary : {None} \cup {Some(t) : t \in PrimaryTexts}]

CoreResult(md_text, has_pdf, error, page_count, ocr_calls) ==
    [md_text |-> md_text, ocr_pdf_bytes |-> has_pdf, error |-> error,
     page_count |-> page_count, ocr_calls |-> ocr_calls, raised |-> FALSE]

\* line 90: the engine's stderr is a str (text=True), and e.stderr.decode()
\* raises out of the except clause when it is not empty
CoreRaised(ocr_calls) ==
    [md_text |-> None, ocr_pdf_bytes |-> FALSE, error |-> None,
     page_count |-> 0, ocr_calls |-> ocr_calls, raised |-> TRUE]

\* re.sub(r'\s+', ' ', md_text).strip() of the text to_markdown returned
CoreSanitize(text) ==
    IF text = EmptyStr THEN EmptyStr ELSE <<"| a | b | markdown text">>

\* core.process_file: the result tuple, with the engine invocations made
CoreProcessFile(ext, force_ocr, env) ==
    LET calls == <<CoreOcrArgs(force_ocr)>>
    IN  IF ext = "other"
        THEN CoreResult(None, FALSE, Some("Unsupported file type."), 0, <<>>)
        ELSE IF ext = "image" /\ env.convert # "ok"
        THEN CoreResult(None, FALSE, Some("Exception"), 0, <<>>)
        ELSE IF ext = "office" /\ env.convert = "failed"
        THEN CoreResult(None, FALSE, Some("Process failed"), 0, <<>>)
        ELSE IF ext = "office" /\ env.convert = "missing"
        THEN CoreResult(None, FALSE, Some("Exception"), 0, <<>>)
        ELSE IF env.ocr.returncode # 0
        THEN IF env.stderr_empty
             THEN CoreResult(None, FALSE, Some("Process failed"), 0, calls)
             ELSE CoreRaised(calls)
        ELSE IF env.primary # None
        THEN CoreResult(Some(CoreSanitize(env.primary[1])), TRUE, None,
                        env.page_count, calls)
        ELSE CoreResult(Some(<<"[Page 1 Block] text">>), TRUE,
                        Some("Markdown conversion failed"), env.page_count, calls)

\* the calls of the functions checked on their own
PageCalls == [fn : {"process_single_page"}, page_num : 0..(MaxPages - 1),
              force_ocr : BOOLEAN, has_text : BOOLEAN, env : PageEnvs]

CoreCalls == [fn : {"core.process_file"}, ext : Exts, force_ocr : BOOLEAN,
              doc_has_text : BOOLEAN, env : CoreEnvs]

\* the page error lists the summary is computed for on its own
MaxErrors == 4

SummaryErrors == {PageError(0, "OCR timeout"), PageError(1, "Extraction failed"),
                  PageError(2, "OCR failed with exit code")}

SummaryCalls == [fn : {"error_summary"},
                 page_errors : UNION {[1..n -> SummaryErrors] : n \in 0..MaxErrors}]

NoCall == [fn |-> "none"]

\* ---------------------------------------------------------------- the state
Files == {"f1", "f2"}

VARIABLES
    doc,               \* file id -> the submitted input (filename extension, force_ocr, pages)
    batch,             \* file id -> the upload request the file came in (0: none)
    pc,                \* file id -> where process_file stands
    tmpdir,            \* file id -> the TemporaryDirectory of the run exists
    has_text,          \* file id -> process_file's has_text
    page_count,        \* file id -> process_file's page_count
    pages,             \* file id -> page index -> the page's future
    all_markdown,      \* file id -> process_file's all_markdown
    page_errors,       \* file id -> process_file's page_errors
    cur,               \* file id -> page_num of the result the loop body is handling
    md_text,           \* file id -> process_file's md_text
    error,             \* file id -> process_file's error
    progress_storage,  \* the dict progress_storage
    recent_results,    \* the dict recent_results
    md_storage,        \* the dict md_storage
    results,           \* file id -> the record upload_files returns for the file
    resp,              \* the response of the request the latest step served
    handler,           \* the request handler the event loop is in the middle of
    page_envs,         \* the collaborators' behaviours the page workers may meet
    call,              \* the call of a function checked on its own
    ret                \* what that call returned

vars == <<doc, batch, pc, tmpdir, has_text, page_count, pages, all_markdown, page_errors,
          cur, md_text, error, progress_storage, recent_results, md_storage,
          results, resp, handler, page_envs, call, ret>>

pipeline_vars == <<doc, batch, pc, tmpdir, has_text, page_count, pages, all_markdown,
                   page_errors, cur, md_text, error, progress_storage, recent_results,
                   md_storage, results, resp, handler, page_envs>>

NoDoc == [ext |-> "none", force_ocr |-> FALSE, pages |-> 0]

\* no request was made yet
NoResp == [op |-> "none"]

\* the event loop is between two handlers
Idle == [fn |-> "idle"]

\* the upload requests
Requests == {1, 2}

\* the uploads are handled in the order the files were submitted in
FileOrder(f) == IF f = "f1" THEN 1 ELSE 2

\* the inputs: an image packs into one page
Inputs(max_pages) ==
    {d \in [ext : Exts, force_ocr : BOOLEAN, pages : 1..max_pages] :
        d.ext # "pdf" => d.pages = 1}

\* ------------------------------------------------------------------- dicts
Put(dict, key, value) ==
    [k \in DOMAIN dict \cup {key} |-> IF k = key THEN value ELSE dict[k]]

Del(dict, key) == [k \in DOMAIN dict \ {key} |-> dict[k]]

\* update_progress writing one page too many
UpdateProgressOffByOne(storage, file_id, pages_processed, status) ==
    IF file_id \in DOMAIN storage
    THEN [storage EXCEPT ![file_id].pages_processed = pages_processed + 1,
                         ![file_id].status = status]
    ELSE storage

\* update_progress making a record for a file that has none
UpdateProgressCreates(storage, file_id, pages_processed, status) ==
    IF file_id \in DOMAIN storage
    THEN [storage EXCEPT ![file_id].pages_processed = pages_processed,
                         ![file_id].status = status]
    ELSE Put(storage, file_id,
             [page_count |-> 0, pages_processed |-> pages_processed,
              failed_pages |-> <<>>, status |-> status])

\* update_progress
UpdateProgress(storage, file_id, pages_processed, status) ==
    IF file_id \in DOMAIN storage
    THEN [storage EXCEPT ![file_id].pages_processed = pages_processed,
                         ![file_id].status = status]
    ELSE storage

\* the failed page noted by its zero-based index
AppendFailedPageZeroBased(storage, file_id, page_num) ==
    IF file_id \in DOMAIN storage
    THEN [storage EXCEPT ![file_id].failed_pages = Append(@, page_num)]
    ELSE storage

\* lines 395-397: the failed page is noted under the lock
AppendFailedPage(storage, file_id, page_num) ==
    IF file_id \in DOMAIN storage
    THEN [storage EXCEPT ![file_id].failed_pages = Append(@, page_num + 1)]
    ELSE storage

\* a page's Markdown appended in completion order: the first slot still empty
StoreFragmentAppended(slots, page_num, page_markdown) ==
    IF Truthy(page_markdown) /\ \E k \in DOMAIN slots : slots[k] = EmptyStr
    THEN LET first == CHOOSE k \in DOMAIN slots :
                         /\ slots[k] = EmptyStr
                         /\ \A j \in DOMAIN slots : slots[j] = EmptyStr => k <= j
         IN  [slots EXCEPT ![first] = page_markdown[1]]
    ELSE slots

\* lines 399-400: a page's Markdown goes to the slot of its page_num
StoreFragment(slots, page_num, page_markdown) ==
    IF Truthy(page_markdown)
    THEN [slots EXCEPT ![page_num] = page_markdown[1]]
    ELSE slots

\* a PDF opens or does not, and page.get_text gives a page's text or raises
PageTexts == {"", " ", "text"}

GetTextRaises == "<raises>"

PageReads == PageTexts \cup {GetTextRaises}

Pdfs(n) == [readable : BOOLEAN, page_text : [1..n -> PageReads]]

\* the pages of a PDF whose text has a character that is not whitespace
TextPages(pdf) ==
    {i \in 1..Len(pdf.page_text) :
        pdf.page_text[i] # GetTextRaises /\ ~IsBlank(pdf.page_text[i])}

\* the detector looking at every page that can be read
HasEmbeddedTextAnyPage(pdf) == pdf.readable /\ TextPages(pdf) # {}

\* lines 43-56: the pages are read in order up to the first one with text;
\* an exception on the way gives False
HasEmbeddedText(pdf) ==
    LET stops == TextPages(pdf) \cup {i \in 1..Len(pdf.page_text) :
                                         pdf.page_text[i] = GetTextRaises}
    IN  IF ~pdf.readable \/ stops = {}
        THEN FALSE
        ELSE LET first == CHOOSE i \in stops : \A j \in stops : i <= j
             IN  pdf.page_text[first] # GetTextRaises

\* the PDFs the detector is called for on its own
DetectCalls == [fn : {"has_embedded_text"}, pdf : UNION {Pdfs(n) : n \in 0..MaxPages}]

\* the summary cut to three messages without the count of the rest
ErrorSummaryWithoutCount(errors) ==
    IF errors = <<>> THEN None
    ELSE Some([what |-> "page errors",
               msgs |-> SubSeq(errors, 1, IF Len(errors) > 3 THEN 3 ELSE Len(errors)),
               more |-> 0])

\* lines 409-412: the summary of the page errors; msgs are the messages joined
\* by "; ", more the count the suffix names (0: no suffix)
ErrorSummary(errors) ==
    IF errors = <<>> THEN None
    ELSE Some([what |-> "page errors",
               msgs |-> SubSeq(errors, 1, IF Len(errors) > 3 THEN 3 ELSE Len(errors)),
               more |-> IF Len(errors) > 3 THEN Len(errors) - 3 ELSE 0])

DocError(what) == Some([what |-> what, msgs |-> <<>>, more |-> 0])

\* a page executor without a worker
NoWorker(a, b) == 0

\* a page executor with a worker for every page
WorkerPerPage(a, b) == a

Min(a, b) == IF a < b THEN a ELSE b

Running(f) == {i \in DOMAIN pages[f] : pages[f][i].state = "running"}

\* -------------------------------------------------------------------- Init
InitOf(docs, envs) ==
    /\ doc \in docs
    /\ page_envs = envs
    /\ handler = Idle
    /\ batch \in [Files -> {0} \cup Requests]
    /\ \A f \in Files : batch[f] = 0 <=> doc[f] = NoDoc
    /\ \A f, g \in Files :
          (batch[f] = batch[g] /\ batch[f] # 0) =>
              doc[f].force_ocr = doc[g].force_ocr
    /\ batch["f1"] \in {0, 1}
    /\ pc = [f \in Files |-> IF doc[f] = NoDoc THEN "absent" ELSE "queued"]
    /\ tmpdir = [f \in Files |-> FALSE]
    /\ has_text = [f \in Files |-> FALSE]
    /\ page_count = [f \in Files |-> 0]
    /\ pages = [f \in Files |-> <<>>]
    /\ all_markdown = [f \in Files |-> <<>>]
    /\ page_errors = [f \in Files |-> <<>>]
    /\ cur = [f \in Files |-> 0]
    /\ md_text = [f \in Files |-> None]
    /\ error = [f \in Files |-> None]
    /\ progress_storage = <<>>
    /\ recent_results = <<>>
    /\ md_storage = <<>>
    /\ results = [f \in Files |-> None]
    /\ resp = NoResp

\* one document is submitted
Init ==
    /\ InitOf({d \in [Files -> Inputs(MaxPages) \cup {NoDoc}] :
                   d["f1"] # NoDoc /\ d["f2"] = NoDoc},
              PipelineEnvs)
    /\ call = NoCall
    /\ ret = None

\* ----------------------------------------------------------- process_file
\* an except clause reached with the temporary directory left behind
FatalKeepsTmpdir(f, what) ==
    /\ error' = [error EXCEPT ![f] = DocError(what)]
    /\ progress_storage' = UpdateProgress(progress_storage, f, 0, "error")
    /\ UNCHANGED tmpdir
    /\ pc' = [pc EXCEPT ![f] = "done"]

\* the except clauses of process_file: the with block is left, the error is
\* set and update_progress(file_id, 0, "error") runs
Fatal(f, what) ==
    /\ error' = [error EXCEPT ![f] = DocError(what)]
    /\ progress_storage' = UpdateProgress(progress_storage, f, 0, "error")
    /\ tmpdir' = [tmpdir EXCEPT ![f] = FALSE]
    /\ pc' = [pc EXCEPT ![f] = "done"]

\* lines 321-346: the input is saved and converted to PDF
Normalize(f) ==
    /\ pc[f] = "queued"
    /\ \/ /\ IsPdf(doc[f].ext)
          /\ tmpdir' = [tmpdir EXCEPT ![f] = TRUE]
          /\ pc' = [pc EXCEPT ![f] = "detect"]
          /\ UNCHANGED <<error, progress_storage>>
       \/ /\ doc[f].ext = "image"
          /\ \/ /\ tmpdir' = [tmpdir EXCEPT ![f] = TRUE]
                /\ pc' = [pc EXCEPT ![f] = "detect"]
                /\ UNCHANGED <<error, progress_storage>>
             \/ Fatal(f, "Unexpected error")
       \/ /\ doc[f].ext = "office"
          /\ \/ /\ tmpdir' = [tmpdir EXCEPT ![f] = TRUE]
                /\ pc' = [pc EXCEPT ![f] = "detect"]
                /\ UNCHANGED <<error, progress_storage>>
             \/ Fatal(f, "Process failed")
             \/ Fatal(f, "Process timed out")
             \/ Fatal(f, "Unexpected error")
       \/ /\ ~IsPdf(doc[f].ext) /\ doc[f].ext = "other"
          /\ error' = [error EXCEPT ![f] = DocError("Unsupported file type.")]
          /\ pc' = [pc EXCEPT ![f] = "done"]
          /\ UNCHANGED <<tmpdir, progress_storage>>
    /\ resp' = NoResp
    /\ UNCHANGED <<call, ret, batch, md_storage, results, handler, page_envs>>
    /\ UNCHANGED <<doc, has_text, page_count, pages, all_markdown, page_errors, cur,
                   md_text, recent_results>>

\* lines 348-362: text detection, the PDF is opened, the record is created
Detect(f) ==
    /\ pc[f] = "detect"
    /\ \E pdf \in Pdfs(doc[f].pages) :
          /\ has_text' = [has_text EXCEPT ![f] = HasEmbeddedText(pdf)]
          /\ IF pdf.readable
             THEN /\ page_count' = [page_count EXCEPT ![f] = Len(pdf.page_text)]
                  /\ progress_storage' =
                        Put(progress_storage, f,
                            [page_count |-> Len(pdf.page_text), pages_processed |-> 0,
                             failed_pages |-> <<>>, status |-> "processing"])
                  /\ pc' = [pc EXCEPT ![f] = "split"]
                  /\ UNCHANGED <<error, tmpdir>>
             ELSE /\ Fatal(f, "Unexpected error")
                  /\ UNCHANGED page_count
    /\ resp' = NoResp
    /\ UNCHANGED <<call, ret, batch, md_storage, results, handler, page_envs>>
    /\ UNCHANGED <<doc, pages, all_markdown, page_errors, cur, md_text, recent_results>>

\* lines 364-387: the pages are split off and submitted to the page executor
Split(f) ==
    /\ pc[f] = "split"
    /\ \/ /\ pages' = [pages EXCEPT ![f] =
                          [i \in 0..(page_count[f] - 1) |->
                              [state |-> "pending", result |-> None]]]
          /\ all_markdown' = [all_markdown EXCEPT ![f] =
                                 [i \in 0..(page_count[f] - 1) |-> EmptyStr]]
          /\ pc' = [pc EXCEPT ![f] = "collect"]
          /\ UNCHANGED <<error, progress_storage, tmpdir>>
       \/ /\ Fatal(f, "Unexpected error")
          /\ UNCHANGED <<pages, all_markdown>>
    /\ resp' = NoResp
    /\ UNCHANGED <<call, ret, batch, md_storage, results, handler, page_envs>>
    /\ UNCHANGED <<doc, has_text, page_count, page_errors, cur, md_text, recent_results>>

\* a worker of the page executor takes the next queued page
StartPage(f, i) ==
    /\ pc[f] \in {"collect", "update"}
    /\ i \in DOMAIN pages[f]
    /\ pages[f][i].state = "pending"
    /\ \A j \in DOMAIN pages[f] : j < i => pages[f][j].state # "pending"
    /\ Cardinality(Running(f)) < Min(page_count[f], MaxPageWorkers)
    /\ pages' = [pages EXCEPT ![f][i].state = "running"]
    /\ resp' = NoResp
    /\ UNCHANGED <<call, ret, batch, md_storage, results, handler, page_envs>>
    /\ UNCHANGED <<doc, pc, tmpdir, has_text, page_count, all_markdown, page_errors,
                   cur, md_text, error, progress_storage, recent_results>>

\* process_single_page returns
FinishPage(f, i) ==
    /\ i \in DOMAIN pages[f]
    /\ pages[f][i].state = "running"
    /\ \E r \in PageResults(page_envs, i, doc[f].force_ocr, has_text[f]) :
          pages' = [pages EXCEPT ![f][i] = [state |-> "done", result |-> Some(r)]]
    /\ resp' = NoResp
    /\ UNCHANGED <<call, ret, batch, md_storage, results, handler, page_envs>>
    /\ UNCHANGED <<doc, pc, tmpdir, has_text, page_count, all_markdown, page_errors,
                   cur, md_text, error, progress_storage, recent_results>>

\* lines 389-400: as_completed hands over a finished future
Collect(f, i) ==
    /\ pc[f] = "collect"
    /\ i \in DOMAIN pages[f]
    /\ pages[f][i].state = "done"
    /\ LET r == pages[f][i].result[1]
       IN  /\ page_errors' = [page_errors EXCEPT ![f] =
                                 IF r.error # None THEN Append(@, r.error[1]) ELSE @]
           /\ progress_storage' =
                 IF r.error # None
                 THEN AppendFailedPage(progress_storage, f, r.page_num)
                 ELSE progress_storage
           /\ all_markdown' = [all_markdown EXCEPT ![f] =
                                  StoreFragment(@, r.page_num, r.markdown)]
           /\ cur' = [cur EXCEPT ![f] = r.page_num]
    /\ pages' = [pages EXCEPT ![f][i].state = "collected"]
    /\ pc' = [pc EXCEPT ![f] = "update"]
    /\ resp' = NoResp
    /\ UNCHANGED <<call, ret, batch, md_storage, results, handler, page_envs>>
    /\ UNCHANGED <<doc, tmpdir, has_text, page_count, md_text, error, recent_results>>

\* line 402
Update(f) ==
    /\ pc[f] = "update"
    /\ progress_storage' = UpdateProgress(progress_storage, f, cur[f] + 1, "processing")
    /\ pc' = [pc EXCEPT ![f] = "collect"]
    /\ resp' = NoResp
    /\ UNCHANGED <<call, ret, batch, md_storage, results, handler, page_envs>>
    /\ UNCHANGED <<doc, tmpdir, has_text, page_count, pages, all_markdown, page_errors,
                   cur, md_text, error, recent_results>>

\* lines 404-414: all futures are in
Combine(f) ==
    /\ pc[f] = "collect"
    /\ \A i \in DOMAIN pages[f] : pages[f][i].state = "collected"
    /\ md_text' = [md_text EXCEPT ![f] =
                      IF DOMAIN all_markdown[f] # {}
                      THEN Some(CleanMarkdown(JoinAll(all_markdown[f]))) ELSE @]
    /\ error' = [error EXCEPT ![f] = ErrorSummary(page_errors[f])]
    /\ progress_storage' = UpdateProgress(progress_storage, f, page_count[f], "completed")
    /\ pc' = [pc EXCEPT ![f] = "publish"]
    /\ resp' = NoResp
    /\ UNCHANGED <<call, ret, batch, md_storage, results, handler, page_envs>>
    /\ UNCHANGED <<doc, tmpdir, has_text, page_count, pages, all_markdown, page_errors,
                   cur, recent_results>>

\* lines 416-420 and the return
Publish(f) ==
    /\ pc[f] = "publish"
    /\ recent_results' =
          Put(recent_results, f,
              [page_count |-> page_count[f],
               status |-> IF error[f] = None THEN "completed" ELSE "error"])
    /\ tmpdir' = [tmpdir EXCEPT ![f] = FALSE]
    /\ pc' = [pc EXCEPT ![f] = "done"]
    /\ resp' = NoResp
    /\ UNCHANGED <<call, ret, batch, md_storage, results, handler, page_envs>>
    /\ UNCHANGED <<doc, has_text, page_count, pages, all_markdown, page_errors, cur,
                   md_text, error, progress_storage>>

\* ----------------------------------------------------------- upload_files
\* the files of upload request r
FilesOf(r) == {f \in Files : batch[f] = r}

\* the ids md_storage may be keyed by
MdIds == {"m1", "m2"}

Ids == Files \cup MdIds

\* the Markdown ids handed out so far
Issued == {results[f][1].markdown_id[1] :
              f \in {g \in Files : results[g] # None /\ results[g][1].markdown_id # None}}

\* str(uuid.uuid4()) giving an id it gave before
Uuid4Repeating(issued) == MdIds

\* str(uuid.uuid4()): an id no earlier call returned
Uuid4(issued) == MdIds \ issued

\* md_text.encode('utf-8')
Encode(text) == [utf8 |-> text]

\* the record of a file whose Markdown is withheld when pages failed
FormattedResultAllOrNothing(f, md_id) ==
    [file_name |-> f,
     page_count |-> page_count[f],
     status |-> error[f],
     content_preview |-> IF Truthy(md_text[f]) /\ error[f] = None
                         THEN md_text[f][1] ELSE <<"No content">>,
     markdown_content |-> IF error[f] = None THEN md_text[f] ELSE None,
     markdown_id |-> md_id,
     file_id |-> f]

\* the record of a file carrying the first error of any file of its request
FormattedResultSharedStatus(f, md_id) ==
    LET failed == {g \in FilesOf(batch[f]) : error[g] # None}
    IN  [file_name |-> f,
         page_count |-> page_count[f],
         status |-> IF failed = {} THEN None
                    ELSE error[CHOOSE g \in failed :
                                   \A h \in failed : FileOrder(g) <= FileOrder(h)],
         content_preview |-> IF Truthy(md_text[f]) THEN md_text[f][1]
                             ELSE <<"No content">>,
         markdown_content |-> md_text[f],
         markdown_id |-> md_id,
         file_id |-> f]

\* lines 495-505: the record of one file; status None stands for "Success"
FormattedResult(f, md_id) ==
    [file_name |-> f,
     page_count |-> page_count[f],
     status |-> error[f],
     content_preview |-> IF Truthy(md_text[f]) THEN md_text[f][1] ELSE <<"No content">>,
     markdown_content |-> md_text[f],
     markdown_id |-> md_id,
     file_id |-> f]

\* lines 468-510: every pipeline of the request has returned; the results are
\* formatted in submission order and the Markdown of each is stored under a
\* new id
Respond(r) ==
    /\ handler = Idle
    /\ FilesOf(r) # {}
    /\ \A f \in FilesOf(r) : pc[f] = "done" /\ results[f] = None
    /\ LET stored == {f \in FilesOf(r) : Truthy(md_text[f])}
       IN  \E ids \in [stored -> MdIds] :
              /\ \A f \in stored :
                    ids[f] \in Uuid4(Issued \cup {ids[g] : g \in {h \in stored :
                                                        FileOrder(h) < FileOrder(f)}})
              /\ md_storage' =
                    [k \in DOMAIN md_storage \cup {ids[f] : f \in stored} |->
                        IF \E f \in stored : ids[f] = k
                        THEN LET last == CHOOSE f \in stored :
                                            /\ ids[f] = k
                                            /\ \A g \in stored : ids[g] = k =>
                                                  FileOrder(g) <= FileOrder(f)
                             IN  Encode(md_text[last][1])
                        ELSE md_storage[k]]
              /\ resp' = NoResp
              /\ results' = [f \in Files |->
                               IF f \in FilesOf(r)
                               THEN Some(FormattedResult(f, IF f \in stored
                                                            THEN Some(ids[f]) ELSE None))
                               ELSE results[f]]
    /\ UNCHANGED <<doc, batch, pc, tmpdir, has_text, page_count, pages, all_markdown,
                   page_errors, cur, md_text, error, progress_storage, recent_results,
                   handler, page_envs, call, ret>>

\* ----------------------------------------------------------- get_progress
Snapshot(file_id, n_pages, processed, failed, status) ==
    [file_id |-> file_id, page_count |-> n_pages, pages_processed |-> processed,
     failed_pages |-> failed, status |-> status]

\* get_progress: the body of the response when no thread writes to the record
\* while it is read
GetProgress(progress, recent, file_id) ==
    IF file_id \in DOMAIN progress
    THEN Snapshot(file_id, progress[file_id].page_count,
                  progress[file_id].pages_processed, progress[file_id].failed_pages,
                  progress[file_id].status)
    ELSE IF file_id \in DOMAIN recent
    THEN Snapshot(file_id, recent[file_id].page_count, recent[file_id].page_count,
                  <<>>, recent[file_id].status)
    ELSE Snapshot(file_id, 0, 0, <<>>, "unknown")

\* GET /progress/{file_id}, lines 514-540: the record is looked up under the
\* lock.  Without one the answer is made from recent_results; with one, its
\* page_count and pages_processed are read after the lock was released
Poll(id) ==
    /\ handler = Idle
    /\ IF id \in DOMAIN progress_storage
       THEN /\ handler' = [fn |-> "get_progress", id |-> id, at |-> "status",
                           page_count |-> progress_storage[id].page_count,
                           pages_processed |-> progress_storage[id].pages_processed,
                           status |-> "unknown"]
            /\ resp' = NoResp
       ELSE /\ resp' = [op |-> "progress", id |-> id, code |-> 200,
                        body |-> GetProgress(progress_storage, recent_results, id)]
            /\ handler' = Idle
    /\ UNCHANGED <<doc, batch, pc, tmpdir, has_text, page_count, pages, all_markdown,
                   page_errors, cur, md_text, error, progress_storage, recent_results,
                   md_storage, results, page_envs, call, ret>>

\* lines 541-542: failed_pages is taken by reference and status is read; the
\* pipeline's threads may have run since the counter was read
PollStatus ==
    /\ handler.fn = "get_progress"
    /\ handler.at = "status"
    /\ handler' = [handler EXCEPT !.at = "encode",
                                  !.status = progress_storage[handler.id].status]
    /\ resp' = NoResp
    /\ UNCHANGED <<doc, batch, pc, tmpdir, has_text, page_count, pages, all_markdown,
                   page_errors, cur, md_text, error, progress_storage, recent_results,
                   md_storage, results, page_envs, call, ret>>

\* the dict is returned and encoded: the list failed_pages is read now
PollEncode ==
    /\ handler.fn = "get_progress"
    /\ handler.at = "encode"
    /\ resp' = [op |-> "progress", id |-> handler.id, code |-> 200,
                body |-> Snapshot(handler.id, handler.page_count,
                                  handler.pages_processed,
                                  progress_storage[handler.id].failed_pages,
                                  handler.status)]
    /\ handler' = Idle
    /\ UNCHANGED <<doc, batch, pc, tmpdir, has_text, page_count, pages, all_markdown,
                   page_errors, cur, md_text, error, progress_storage, recent_results,
                   md_storage, results, page_envs, call, ret>>

\* ------------------------------------------------------- download_markdown
\* GET /download-markdown/{md_id}: 404 when nothing, or nothing but b'', is stored
Download(id) ==
    /\ handler = Idle
    /\ handler' = Idle
    /\ resp' = IF id \in DOMAIN md_storage /\ md_storage[id] # Encode(EmptyStr)
               THEN [op |-> "download", id |-> id, code |-> 200, body |-> md_storage[id]]
               ELSE [op |-> "download", id |-> id, code |-> 404,
                     body |-> [detail |-> "Markdown file not found"]]
    /\ UNCHANGED <<doc, batch, pc, tmpdir, has_text, page_count, pages, all_markdown,
                   page_errors, cur, md_text, error, progress_storage, recent_results,
                   md_storage, results, page_envs, call, ret>>

\* ------------------------------------------------------------ cleanup_file
\* del dict[key] raising KeyError when the key is not there
CleanupStrict(dict, key) ==
    [raised |-> key \notin DOMAIN dict, dict |-> Del(dict, key), cleaned |-> TRUE]

\* if key in dict: del dict[key]
CleanupEntry(dict, key) ==
    [raised |-> FALSE, dict |-> Del(dict, key), cleaned |-> key \in DOMAIN dict]

\* DELETE /cleanup/{file_id}: the three registries in turn, as one step.  A
\* pipeline step that falls between two lines of the handler leaves the
\* registries as if it had come before the handler or after it
Cleanup(id) ==
    LET md == CleanupEntry(md_storage, id)
        progress == CleanupEntry(progress_storage, id)
        recent == CleanupEntry(recent_results, id)
        raised == md.raised \/ progress.raised \/ recent.raised
    IN  /\ handler = Idle
        /\ md_storage' = md.dict
        /\ progress_storage' = progress.dict
        /\ recent_results' = recent.dict
        /\ resp' = [op |-> "cleanup", id |-> id,
                    code |-> IF raised THEN 500 ELSE 200,
                    body |-> [cleaned |->
                                 (IF md.cleaned THEN <<"md_storage">> ELSE <<>>)
                                 \o (IF progress.cleaned THEN <<"progress_storage">>
                                     ELSE <<>>)
                                 \o (IF recent.cleaned THEN <<"recent_results">>
                                     ELSE <<>>)]]
        /\ UNCHANGED <<doc, batch, pc, tmpdir, has_text, page_count, pages, all_markdown,
                       page_errors, cur, md_text, error, results, handler, page_envs,
                       call, ret>>

\* cleanup_file line by line.  Lines 559-563: md_storage is only touched on
\* the event loop; the membership test of progress_storage is made without
\* the lock
CleanupBegin(id) ==
    LET md == CleanupEntry(md_storage, id)
    IN  /\ handler = Idle
        /\ md_storage' = md.dict
        /\ handler' = [fn |-> "cleanup_file", id |-> id,
                       at |-> IF id \in DOMAIN progress_storage
                              THEN "del progress_storage" ELSE "recent_results",
                       cleaned |-> IF md.cleaned THEN <<"md_storage">> ELSE <<>>]
        /\ resp' = NoResp
        /\ UNCHANGED <<doc, batch, pc, tmpdir, has_text, page_count, pages, all_markdown,
                       page_errors, cur, md_text, error, progress_storage,
                       recent_results, results, page_envs, call, ret>>

\* lines 564-566: the lock is taken for the del alone
CleanupDelProgress ==
    /\ handler.fn = "cleanup_file"
    /\ handler.at = "del progress_storage"
    /\ handler.id \in DOMAIN progress_storage
    /\ progress_storage' = Del(progress_storage, handler.id)
    /\ handler' = [handler EXCEPT !.at = "recent_results",
                                  !.cleaned = Append(@, "progress_storage")]
    /\ resp' = NoResp
    /\ UNCHANGED <<doc, batch, pc, tmpdir, has_text, page_count, pages, all_markdown,
                   page_errors, cur, md_text, error, recent_results, md_storage,
                   results, page_envs, call, ret>>

\* line 567: the membership test of recent_results, without the lock
CleanupRecent ==
    /\ handler.fn = "cleanup_file"
    /\ handler.at = "recent_results"
    /\ IF handler.id \in DOMAIN recent_results
       THEN /\ handler' = [handler EXCEPT !.at = "del recent_results"]
            /\ resp' = NoResp
       ELSE /\ handler' = Idle
            /\ resp' = [op |-> "cleanup", id |-> handler.id, code |-> 200,
                        body |-> [cleaned |-> handler.cleaned]]
    /\ UNCHANGED <<doc, batch, pc, tmpdir, has_text, page_count, pages, all_markdown,
                   page_errors, cur, md_text, error, progress_storage, recent_results,
                   md_storage, results, page_envs, call, ret>>

\* lines 568-571: the del, without the lock, and the answer
CleanupDelRecent ==
    /\ handler.fn = "cleanup_file"
    /\ handler.at = "del recent_results"
    /\ handler.id \in DOMAIN recent_results
    /\ recent_results' = Del(recent_results, handler.id)
    /\ handler' = Idle
    /\ resp' = [op |-> "cleanup", id |-> handler.id, code |-> 200,
                body |-> [cleaned |-> Append(handler.cleaned, "recent_results")]]
    /\ UNCHANGED <<doc, batch, pc, tmpdir, has_text, page_count, pages, all_markdown,
                   page_errors, cur, md_text, error, progress_storage, md_storage,
                   results, page_envs, call, ret>>

Next ==
    \E f \in Files :
        \/ Normalize(f)
        \/ Detect(f)
        \/ Split(f)
        \/ \E i \in DOMAIN pages[f] : StartPage(f, i)
        \/ \E i \in DOMAIN pages[f] : FinishPage(f, i)
        \/ \E i \in DOMAIN pages[f] : Collect(f, i)
        \/ Update(f)
        \/ Combine(f)
        \/ Publish(f)
        \/ \E r \in Requests : Respond(r)

Spec == Init /\ [][Next]_vars

\* the executor's threads keep running and every external process returns or
\* times out: a run that can take a step takes one
InitLive ==
    /\ InitOf({d \in [Files -> Inputs(MaxLivePages) \cup {NoDoc}] :
                   d["f1"] # NoDoc /\ d["f2"] = NoDoc},
              PipelineEnvs)
    /\ call = NoCall
    /\ ret = None

SpecLive == InitLive /\ [][Next]_vars /\ WF_vars(Next)

\* ------------------------------------------------- the server and a client
\* one uploaded document and a client that polls, downloads and cleans up at
\* any time.  The handlers are coroutines of one event loop: one runs at a
\* time, while the pipeline's threads run on.  Polls are made with file ids and
\* with ids of the client's own making, downloads with Markdown ids.
MaxApiPages == 1

InitApi ==
    /\ InitOf({d \in [Files -> Inputs(MaxApiPages) \cup {NoDoc}] :
                   d["f1"] # NoDoc /\ d["f2"] = NoDoc},
              PipelineEnvs)
    /\ call = NoCall
    /\ ret = None

\* two uploaded documents, in one upload request or in two, and the client
InitStore ==
    /\ InitOf({[f \in Files |-> [ext |-> "pdf", force_ocr |-> TRUE, pages |-> 1]]},
              PipelineEnvs)
    /\ call = NoCall
    /\ ret = None

\* streamlit_app.py line 112: the client makes an id of its own for each file
\* it is about to upload; line 219 polls with it.  The POST of lines 157-161
\* sends the files and force_ocr, no id
ClientIds == {"c1", "c2"}

ClientFileId(f) == IF f = "f1" THEN "c1" ELSE "c2"

NextApi ==
    \/ Next
    \/ \E id \in Files \cup ClientIds : Poll(id)
    \/ PollStatus
    \/ PollEncode
    \/ \E id \in MdIds : Download(id)
    \/ \E id \in Ids : Cleanup(id)

SpecApi == InitApi /\ [][NextApi]_vars

\* get_progress writes to no registry: the two documents are run without it
NextStore ==
    \/ Next
    \/ \E id \in MdIds : Download(id)
    \/ \E id \in Ids : Cleanup(id)

SpecStore == InitStore /\ [][NextStore]_vars

\* one uploaded document and clean-ups taken line by line
NextLock ==
    \/ Next
    \/ \E id \in Files : CleanupBegin(id)
    \/ CleanupDelProgress
    \/ CleanupRecent
    \/ CleanupDelRecent

SpecLock == InitApi /\ [][NextLock]_vars

\* two documents of one upload request: any input and a one-page PDF
MaxBatchPages == 1

InitBatch ==
    /\ InitOf({d \in [Files -> Inputs(MaxBatchPages)] :
                   /\ d["f2"].ext = "pdf" /\ d["f2"].pages = 1
                   /\ d["f2"].force_ocr = d["f1"].force_ocr},
              PipelineEnvs)
    /\ batch = [f \in Files |-> 1]
    /\ call = NoCall
    /\ ret = None

SpecBatch == InitBatch /\ [][Next]_vars

\* one PDF with one page more than the page executor may have workers: the
\* smallest document the cap of line 383 bites on
PoolPages == MaxPageWorkers + 1

InitPool ==
    /\ InitOf({d \in [Files -> Inputs(PoolPages) \cup {NoDoc}] :
                   /\ d["f1"] # NoDoc /\ d["f2"] = NoDoc
                   /\ d["f1"].ext = "pdf" /\ d["f1"].force_ocr
                   /\ d["f1"].pages = PoolPages},
              PoolEnvs)
    /\ call = NoCall
    /\ ret = None

SpecPool == InitPool /\ [][Next]_vars

\* ------------------------------------------- the functions on their own
InitFn ==
    /\ InitOf({[f \in Files |-> NoDoc]}, PipelineEnvs)
    /\ call \in PageCalls \cup CoreCalls \cup SummaryCalls \cup DetectCalls
    /\ ret = None

CallProcessSinglePage ==
    /\ call.fn = "process_single_page"
    /\ ret = None
    /\ ret' = Some(ProcessSinglePage(call.page_num, call.force_ocr, call.has_text,
                                     call.env))
    /\ UNCHANGED <<pipeline_vars, call>>

CallCoreProcessFile ==
    /\ call.fn = "core.process_file"
    /\ ret = None
    /\ ret' = Some(CoreProcessFile(call.ext, call.force_ocr, call.env))
    /\ UNCHANGED <<pipeline_vars, call>>

\* lines 409-412 of process_file, for a list of page errors
CallErrorSummary ==
    /\ call.fn = "error_summary"
    /\ ret = None
    /\ ret' = Some(ErrorSummary(call.page_errors))
    /\ UNCHANGED <<pipeline_vars, call>>

\* has_embedded_text for a PDF
CallHasEmbeddedText ==
    /\ call.fn = "has_embedded_text"
    /\ ret = None
    /\ ret' = Some(HasEmbeddedText(call.pdf))
    /\ UNCHANGED <<pipeline_vars, call>>

NextFn ==
    \/ CallProcessSinglePage
    \/ CallCoreProcessFile
    \/ CallErrorSummary
    \/ CallHasEmbeddedText

SpecFn == InitFn /\ [][NextFn]_vars

\* ------------------------------------------------------------- the claims
Collected(f) == {i \in DOMAIN pages[f] : pages[f][i].state = "collected"}

\* the result of page i's future, once it is in
ResultOf(f, i) == pages[f][i].result[1]

\* the pages of f whose result carried an error
Failed(f) == {i \in DOMAIN pages[f] :
                 pages[f][i].result # None /\ ResultOf(f, i).error # None}

\* what page i has contributed to the reassembly so far
FragmentOf(f, i) ==
    IF i \in Collected(f) /\ Truthy(ResultOf(f, i).markdown)
    THEN ResultOf(f, i).markdown[1]
    ELSE EmptyStr

\* C1: once a document is split into pageCount pages there are exactly
\* pageCount fragment slots, slot i holds what page i contributed (its
\* fragment, headed "# Page i+1", or nothing), whatever the order the pages
\* are collected in, and the assembled Markdown is the cleaned concatenation
\* of the pages' fragments in index order.
C1_SlotsInIndexOrder ==
    \A f \in Files :
        pages[f] # <<>> =>
            /\ DOMAIN all_markdown[f] = 0..(page_count[f] - 1)
            /\ DOMAIN pages[f] = 0..(page_count[f] - 1)
            /\ \A i \in DOMAIN pages[f] :
                  /\ all_markdown[f][i] = FragmentOf(f, i)
                  /\ all_markdown[f][i] # EmptyStr =>
                        all_markdown[f][i][1] = "# Page " \o ToString(i + 1)
            /\ pc[f] \in {"publish", "done"} =>
                  /\ Collected(f) = DOMAIN pages[f]
                  /\ md_text[f] =
                        Some(CleanMarkdown(JoinAll([i \in DOMAIN pages[f] |->
                                                       FragmentOf(f, i)])))

\* C1 witness: page 2 was collected before page 0 and page 1 is still out
C1_Witness ==
    \E f \in Files :
        /\ page_count[f] = 3
        /\ pc[f] = "update" /\ cur[f] = 0
        /\ Collected(f) = {0, 2}
        /\ all_markdown[f][0] # EmptyStr
        /\ all_markdown[f][2] # EmptyStr

\* C2: pages_processed of a ProgressRecord never decreases from one state to
\* the next.
C2_PagesProcessedNeverDecreases ==
    [][\A f \in Files :
          (f \in DOMAIN progress_storage /\ f \in DOMAIN progress_storage') =>
              progress_storage'[f].pages_processed >= progress_storage[f].pages_processed]_vars

\* C3: every ProgressRecord has 0 <= pages_processed <= page_count.
C3_PagesProcessedInRange ==
    \A f \in DOMAIN progress_storage :
        /\ 0 <= progress_storage[f].pages_processed
        /\ progress_storage[f].pages_processed <= progress_storage[f].page_count

\* C3 witness: the last page of a 3-page document was collected first
C3_Witness ==
    \E f \in DOMAIN progress_storage :
        /\ progress_storage[f].page_count = 3
        /\ progress_storage[f].pages_processed = 3
        /\ progress_storage[f].status = "processing"
        /\ Collected(f) = {2}

\* C4: between two results, after k pages of a document were collected,
\* pages_processed equals k.
C4_PagesProcessedCountsCollected ==
    \A f \in DOMAIN progress_storage :
        (pc[f] = "collect" /\ progress_storage[f].status = "processing") =>
            progress_storage[f].pages_processed = Cardinality(Collected(f))

\* the elements of a sequence
Range(seq) == {seq[k] : k \in 1..Len(seq)}

PageCallDone == call.fn = "process_single_page" /\ ret # None

\* a returned call whose engine invocation exited with a code that is neither
\* 0 nor the 'already had text' code
EngineFailed ==
    /\ PageCallDone
    /\ call.env.ocr.how = "exit"
    /\ call.env.ocr.returncode \notin {0, AlreadyHadText}

\* C6: a page whose engine invocation exits with code 15 is a success: the
\* engine was invoked once, the result is what Markdown extraction of the page
\* gives, and no error of the OCR step is reported.
C6_Exit15IsSuccess ==
    (/\ PageCallDone
     /\ call.env.ocr.how = "exit"
     /\ call.env.ocr.returncode = AlreadyHadText) =>
        /\ Len(ret[1].ocr_calls) = 1
        /\ ret[1].markdown # None
        /\ ret[1].error # None => ret[1].error[1].what = "Extraction failed"
        /\ ret[1] = ExtractMarkdown(call.page_num, call.env, ret[1].ocr_calls)

\* C6 witness: exit code 15 under --skip-text, a fragment and no error
C6_Witness ==
    /\ PageCallDone
    /\ call.env.ocr.how = "exit"
    /\ call.env.ocr.returncode = AlreadyHadText
    /\ ~call.force_ocr /\ call.has_text
    /\ Includes(ret[1].ocr_calls[1], "--skip-text")
    /\ Truthy(ret[1].markdown)
    /\ ret[1].error = None

TimedOut(f) == {i \in Failed(f) : ResultOf(f, i).error[1].what = "OCR timeout"}

\* what holds of a timed-out page in every state: one invocation of the
\* engine, a page error and no fragment, an empty slot; and of its document
\* when the run is over: every page collected, the page errors summarised,
\* the Markdown assembled, the stage completed
TimeoutIsTerminal ==
    \A f \in Files : \A i \in TimedOut(f) :
        /\ Len(ResultOf(f, i).ocr_calls) = 1
        /\ ResultOf(f, i).markdown = None
        /\ all_markdown[f][i] = EmptyStr
        /\ pc[f] = "done" =>
              /\ Collected(f) = DOMAIN pages[f]
              /\ error[f] # None /\ error[f][1].what = "page errors"
              /\ md_text[f] # None
              /\ f \in DOMAIN progress_storage =>
                    progress_storage[f].status = "completed"

\* C8: a page whose engine invocation timed out has a page error after one
\* invocation of the engine and contributes no fragment, and from then on
\* every other page of its document still comes to its result and is
\* collected, and the run ends.
C8_TimeoutIsTerminalNotBlocking ==
    /\ []TimeoutIsTerminal
    /\ \A f \in Files :
          (TimedOut(f) # {}) ~> (pc[f] = "done" /\ Collected(f) = DOMAIN pages[f])

\* C8 witness: the second page of two timed out, the first gave its fragment,
\* and the run is over
C8_Witness ==
    \E f \in Files :
        /\ pc[f] = "done"
        /\ page_count[f] = 2
        /\ TimedOut(f) = {1}
        /\ page_errors[f] = <<PageError(1, "OCR timeout")>>
        /\ all_markdown[f][0] # EmptyStr
        /\ all_markdown[f][1] = EmptyStr

\* a returned call of either pipeline's page or document function
AnyCallDone == call.fn \in {"process_single_page", "core.process_file"} /\ ret # None

\* C9: with forceOcr, every engine invocation carries --force-ocr and never
\* --skip-text, with or without embedded text.
C9_ForceAlwaysForces ==
    (AnyCallDone /\ call.force_ocr) =>
        \A k \in 1..Len(ret[1].ocr_calls) :
            /\ Includes(ret[1].ocr_calls[k], "--force-ocr")
            /\ ~Includes(ret[1].ocr_calls[k], "--skip-text")

\* C9 witness: a forced page of a document that has embedded text
C9_Witness ==
    /\ PageCallDone
    /\ call.force_ocr /\ call.has_text
    /\ Len(ret[1].ocr_calls) = 1
    /\ Includes(ret[1].ocr_calls[1], "--force-ocr")

\* the document of the call has embedded text
CallHasText ==
    IF call.fn = "process_single_page" THEN call.has_text ELSE call.doc_has_text

\* C10: without forceOcr and with embedded text, every engine invocation
\* carries --skip-text and neither --deskew nor --clean.
C10_SkipTextWithoutPreprocessing ==
    (AnyCallDone /\ ~call.force_ocr /\ CallHasText) =>
        \A k \in 1..Len(ret[1].ocr_calls) :
            /\ Includes(ret[1].ocr_calls[k], "--skip-text")
            /\ ~Includes(ret[1].ocr_calls[k], "--deskew")
            /\ ~Includes(ret[1].ocr_calls[k], "--clean")

\* C11: without forceOcr and without embedded text, every engine invocation
\* carries --force-ocr, --deskew and --clean.
C11_NoTextForcesWithPreprocessing ==
    (AnyCallDone /\ ~call.force_ocr /\ ~CallHasText) =>
        \A k \in 1..Len(ret[1].ocr_calls) :
            /\ Includes(ret[1].ocr_calls[k], "--force-ocr")
            /\ Includes(ret[1].ocr_calls[k], "--deskew")
            /\ Includes(ret[1].ocr_calls[k], "--clean")

\* a returned computation of the error summary
SummaryDone == call.fn = "error_summary" /\ ret # None

\* C12: for e page errors the document's error is unset when e = 0, is made of
\* exactly those e messages without a count of further errors when
\* 1 <= e <= 3, and is made of the first three messages in collection order
\* with the count e - 3 when e > 3.
C12_ErrorSummaryShape ==
    SummaryDone =>
        LET errors == call.page_errors
            e == Len(errors)
            summary == ret[1]
        IN  /\ e = 0 => summary = None
            /\ (1 <= e /\ e <= 3) =>
                  /\ summary # None
                  /\ summary[1].msgs = errors
                  /\ summary[1].more = 0
            /\ e > 3 =>
                  /\ summary # None
                  /\ summary[1].msgs = <<errors[1], errors[2], errors[3]>>
                  /\ summary[1].more = e - 3

\* C12 witness: four page errors, the fourth counted and not quoted
C12_Witness ==
    /\ SummaryDone
    /\ Len(call.page_errors) = 4
    /\ call.page_errors[4] # call.page_errors[3]
    /\ ret[1] # None
    /\ Len(ret[1][1].msgs) = 3
    /\ ret[1][1].more = 1

\* C13: the stage of a ProgressRecord becomes completed only from converting.
C13_ConvertingBeforeCompleted ==
    [][\A f \in Files :
          (/\ f \in DOMAIN progress_storage'
           /\ progress_storage'[f].status = "completed"
           /\ (f \notin DOMAIN progress_storage
               \/ progress_storage[f].status # "completed")) =>
              /\ f \in DOMAIN progress_storage
              /\ progress_storage[f].status = "converting"]_vars

\* the whole-document failures of process_file's except clauses
FatalKinds == {"Process failed", "Process timed out", "Unexpected error"}

\* the run of f ended in one of the except clauses
FailedFatally(f) ==
    pc[f] = "done" /\ error[f] # None /\ error[f][1].what \in FatalKinds

\* C14: after a whole-document failure no page of the document is processed,
\* and a poll of its id (its record not removed by a cleanup) reports stage
\* error, whether the failure came before or after the page count was known.
C14_FatalPollsAsError ==
    \A f \in Files :
        FailedFatally(f) =>
            /\ \A i \in DOMAIN pages[f] : pages[f][i].state = "pending"
            /\ (/\ resp.op = "progress"
                /\ resp.id = f
                /\ (page_count[f] = 0 \/ f \in DOMAIN progress_storage)) =>
                  resp.body.status = "error"

\* C15: an input of an unsupported extension goes from submission straight to
\* the unsupported-format error: no text detection, no split, no page, no
\* ProgressRecord and no entry of recent_results, page count 0 and no
\* Markdown, in the pipeline's return value and in the upload's record.
C15_UnsupportedShortCircuits ==
    \A f \in Files :
        doc[f].ext = "other" =>
            /\ pc[f] \in {"queued", "done"}
            /\ pages[f] = <<>> /\ all_markdown[f] = <<>>
            /\ ~has_text[f]
            /\ ~tmpdir[f]
            /\ f \notin DOMAIN progress_storage
            /\ f \notin DOMAIN recent_results
            /\ page_count[f] = 0
            /\ md_text[f] = None
            /\ pc[f] = "done" => error[f] = DocError("Unsupported file type.")
            /\ results[f] # None =>
                  /\ results[f][1].page_count = 0
                  /\ results[f][1].markdown_content = None
                  /\ results[f][1].markdown_id = None
                  /\ results[f][1].status = DocError("Unsupported file type.")

\* C15 witness: the upload of an unsupported file has been answered
C15_Witness ==
    \E f \in Files :
        /\ doc[f].ext = "other"
        /\ pc[f] = "done"
        /\ results[f] # None
        /\ results[f][1].status # None
        /\ md_storage = <<>>

\* C16: a collected page that reported a page error returned no Markdown and
\* its slot in the reassembly is empty.
C16_FragmentOrErrorNeverBoth ==
    \A f \in Files : \A i \in Collected(f) :
        ResultOf(f, i).error # None =>
            /\ ~Truthy(ResultOf(f, i).markdown)
            /\ all_markdown[f][i] = EmptyStr

\* the pages of f that contributed text to the reassembly
Contributing(f) == {i \in DOMAIN pages[f] : FragmentOf(f, i) # EmptyStr}

\* C17: when some but not all pages of a document ended in a page error, the
\* upload's record carries the Markdown assembled from the fragments (present,
\* with the heading of every page that contributed text), a summary of at
\* least one page error, and the full page count; and the Markdown is stored
\* under the record's id whenever it is not empty.
C17_PartialFailureKeepsMarkdown ==
    \A f \in Files :
        (/\ results[f] # None
         /\ Failed(f) # {}
         /\ Failed(f) # DOMAIN pages[f]) =>
            LET record == results[f][1]
            IN  /\ record.markdown_content # None
                /\ record.markdown_content =
                      Some(CleanMarkdown(JoinAll([i \in DOMAIN pages[f] |->
                                                     FragmentOf(f, i)])))
                /\ \A i \in Contributing(f) :
                      ("# Page " \o ToString(i + 1)) \in Range(record.markdown_content[1])
                /\ record.status # None
                /\ record.status[1].what = "page errors"
                /\ Len(record.status[1].msgs) >= 1
                /\ record.page_count = Cardinality(DOMAIN pages[f])
                /\ Contributing(f) # {} =>
                      /\ record.markdown_id # None
                      /\ record.markdown_id[1] \in DOMAIN md_storage
                      /\ md_storage[record.markdown_id[1]] =
                            Encode(record.markdown_content[1])

\* C17 witness: of three pages the second timed out, the others gave text
C17_Witness ==
    \E f \in Files :
        /\ results[f] # None
        /\ page_count[f] = 3
        /\ TimedOut(f) = {1}
        /\ Failed(f) = {1}
        /\ Contributing(f) = {0, 2}
        /\ results[f][1].markdown_id # None

\* id is in none of the three registries
Unregistered(id) ==
    /\ id \notin DOMAIN md_storage
    /\ id \notin DOMAIN progress_storage
    /\ id \notin DOMAIN recent_results

\* C18: a cleanup of any id answers 200 and leaves the id in no registry, so
\* that a second call in a row finds nothing; and a cleanup of an id that is
\* in no registry (cleaned before, or never registered) answers 200, names
\* nothing as cleaned and leaves every registry as it was.
C18_CleanupIdempotent ==
    [][\A id \in Ids :
          (resp'.op = "cleanup" /\ resp'.id = id) =>
              /\ resp'.code = 200
              /\ Unregistered(id)'
              /\ Unregistered(id) =>
                    /\ resp'.body.cleaned = <<>>
                    /\ UNCHANGED <<md_storage, progress_storage, recent_results>>]_vars

\* C18 witness: a cleanup of a finished document's id that found nothing,
\* its entry of recent_results gone by an earlier cleanup
C18_Witness ==
    \E f \in Files :
        /\ resp.op = "cleanup" /\ resp.id = f
        /\ resp.code = 200 /\ resp.body.cleaned = <<>>
        /\ results[f] # None
        /\ results[f][1].status = None
        /\ Unregistered(f)

\* C19: right after a cleanup of the id of a document whose upload was
\* answered, the document has no ProgressRecord, no entry of recent_results
\* and no Markdown left in md_storage.
C19_CleanupReleasesArtifact ==
    \A f \in Files :
        (/\ resp.op = "cleanup" /\ resp.id = f
         /\ results[f] # None) =>
            /\ f \notin DOMAIN progress_storage
            /\ f \notin DOMAIN recent_results
            /\ results[f][1].markdown_id # None =>
                  results[f][1].markdown_id[1] \notin DOMAIN md_storage

\* the files whose Markdown was stored, and the id of each
Stored == {f \in Files : results[f] # None /\ results[f][1].markdown_id # None}

MdIdOf(f) == results[f][1].markdown_id[1]

\* what holds of md_storage in every state: ids are not shared, an entry is
\* the encoding of the Markdown it was stored for, and a download answers
\* with exactly the entry, or 404 when there is none
StoreRoundTrip ==
    /\ \A f, g \in Stored : MdIdOf(f) = MdIdOf(g) => f = g
    /\ DOMAIN md_storage \subseteq {MdIdOf(f) : f \in Stored}
    /\ \A f \in Stored :
          MdIdOf(f) \in DOMAIN md_storage =>
              md_storage[MdIdOf(f)] = Encode(results[f][1].markdown_content[1])
    /\ resp.op = "download" =>
          IF resp.id \in DOMAIN md_storage
          THEN /\ resp.code = 200
               /\ resp.body = md_storage[resp.id]
               /\ \E f \in Stored :
                     /\ MdIdOf(f) = resp.id
                     /\ resp.body = Encode(results[f][1].markdown_content[1])
          ELSE resp.code = 404

\* no step writes to an entry that is there: an entry stays as it is, or it
\* goes in a cleanup of its own id
StoreImmutable ==
    \A id \in DOMAIN md_storage :
        IF id \in DOMAIN md_storage'
        THEN md_storage'[id] = md_storage[id]
        ELSE resp'.op = "cleanup" /\ resp'.id = id

\* C20: an artifact is returned as it was stored, whatever was put, run or
\* cleaned up under other ids in between, until it is deleted by a
\* cleanup of its own id; ids are new ones and a put never writes over an
\* artifact.
C20_ArtifactRoundTrip == []StoreRoundTrip /\ [][StoreImmutable]_vars

\* C20 witness: two different Markdown texts were stored, one was deleted, and
\* the other is downloaded
C20_Witness ==
    /\ Stored = Files
    /\ results["f1"][1].markdown_content # results["f2"][1].markdown_content
    /\ resp.op = "download" /\ resp.code = 200
    /\ resp.id = MdIdOf("f1")
    /\ MdIdOf("f2") \notin DOMAIN md_storage

\* C21: a poll of an id that has no record in progress_storage (not yet
\* initialised, cleaned up, or never submitted) is answered without an error
\* by a snapshot of zeros: page_count 0, pages_processed 0, no failed pages.
C21_AbsentIdPollsAsZeros ==
    (resp.op = "progress" /\ resp.id \notin DOMAIN progress_storage) =>
        /\ resp.code = 200
        /\ resp.body.page_count = 0
        /\ resp.body.pages_processed = 0
        /\ resp.body.failed_pages = <<>>

\* upload request r was answered
Answered(r) == FilesOf(r) # {} /\ \A f \in FilesOf(r) : results[f] # None

\* C22: an upload of n files is answered by n records at once, the record of
\* a file being made of that file's name and of what that file's pipeline
\* returned (page count, status, preview, Markdown) and of nothing else: a
\* pipeline that fails gives an error record for its own file and leaves the
\* record of every other file as it would have been.
C22_OneRecordPerFile ==
    \A r \in Requests :
        /\ (\E f \in FilesOf(r) : results[f] # None) => Answered(r)
        /\ \A f \in FilesOf(r) :
              results[f] # None =>
                  /\ results[f][1].file_name = f
                  /\ results[f][1].file_id = f
                  /\ results[f][1].page_count = page_count[f]
                  /\ results[f][1].status = error[f]
                  /\ results[f][1].markdown_content = md_text[f]
                  /\ results[f][1].content_preview =
                        IF Truthy(md_text[f]) THEN md_text[f][1] ELSE <<"No content">>

C22_Witness ==
    /\ Answered(1)
    /\ FilesOf(1) = Files
    /\ FailedFatally("f1")
    /\ results["f1"][1].status # None
    /\ results["f2"][1].status = None
    /\ Truthy(results["f2"][1].markdown_content)

\* the record of f says the document is over
Settled(f) ==
    f \in DOMAIN progress_storage /\ progress_storage[f].status \in {"completed", "error"}

\* C23: with every external process returning or timing out and the threads
\* scheduled fairly, every pipeline that was started returns, and a record
\* that was created (none is removed here) reaches completed or error.
C23_EveryRunEnds ==
    /\ (pc["f1"] = "queued") ~> (pc["f1"] = "done")
    /\ (pc["f2"] = "queued") ~> (pc["f2"] = "done")
    /\ ("f1" \in DOMAIN progress_storage) ~> Settled("f1")
    /\ ("f2" \in DOMAIN progress_storage) ~> Settled("f2")

C23_Witness ==
    \E f \in Files :
        /\ pc[f] = "done"
        /\ Settled(f)
        /\ progress_storage[f].status = "completed"
        /\ page_count[f] = MaxLivePages
        /\ Failed(f) # {}

\* C24: the id the client polls with for a file is the id the server keeps
\* the file's record under, so a poll made while the document is in flight
\* sees the record's page_count and pages_processed.
C24_ClientPollsServerId ==
    \A f \in Files :
        (/\ resp.op = "progress"
         /\ resp.id = ClientFileId(f)
         /\ f \in DOMAIN progress_storage) =>
            /\ resp.body.page_count = progress_storage[f].page_count
            /\ resp.body.pages_processed = progress_storage[f].pages_processed

\* cleanup_file stands between a membership test and the del it guards
BetweenCheckAndDel(registry) ==
    /\ handler.fn = "cleanup_file"
    /\ handler.at = registry

\* C25: a membership test of a registry and the change it guards are one
\* critical section: while cleanup_file stands between its test and its del,
\* no other thread changes the registry.
C25_CheckThenActUnderLock ==
    [][/\ (BetweenCheckAndDel("del progress_storage") /\ handler' = handler) =>
              progress_storage' = progress_storage
       /\ (BetweenCheckAndDel("del recent_results") /\ handler' = handler) =>
              recent_results' = recent_results]_vars

\* the engine invocation of a returned call was a success
OcrSucceeded ==
    /\ PageCallDone
    /\ call.env.ocr.how = "exit"
    /\ call.env.ocr.returncode \in {0, AlreadyHadText}

\* what the layout heuristic gives for the file the page is extracted from
Heuristic(env) == IF env.out_exists THEN env.enhanced ELSE env.orig_enhanced

\* a collaborator raised, or returned nothing but whitespace
NoContent(opt) == opt = None \/ ~HasContent(opt[1])

\* neither extractor yields content for the page of a returned call
NothingExtracted ==
    /\ OcrSucceeded
    /\ NoContent(call.env.primary)
    /\ NoContent(Heuristic(call.env))

\* C26 as stated: after a successful OCR step, a page for which neither the
\* primary extractor nor the heuristic yields content contributes the empty
\* fragment and no page error.
C26_NothingExtractedIsNoError ==
    NothingExtracted =>
        /\ ret[1].markdown = Some(EmptyStr)
        /\ ret[1].error = None

\* C26, amended: such a page contributes the empty fragment; it reports no
\* page error when the heuristic returned, and the page error "Extraction
\* failed" when the heuristic raised.
C26_NoErrorUnlessHeuristicRaises ==
    NothingExtracted =>
        /\ ret[1].markdown = Some(EmptyStr)
        /\ ret[1].error = IF Heuristic(call.env) = None
                          THEN Some(PageError(call.page_num, "Extraction failed"))
                          ELSE None

C26_Witness ==
    /\ NothingExtracted
    /\ call.env.primary = Some(EmptyStr)
    /\ Heuristic(call.env) = None
    /\ ret[1].error # None

\* C27: at no time are more pages of a document being processed than the
\* document has pages, nor more than eight.
C27_AtMostMinWorkers ==
    \A f \in Files :
        /\ Cardinality(Running(f)) <= page_count[f]
        /\ Cardinality(Running(f)) <= MaxPageWorkers

C27_Witness ==
    \E f \in Files :
        /\ page_count[f] > MaxPageWorkers
        /\ Cardinality(Running(f)) = MaxPageWorkers
        /\ \E i \in DOMAIN pages[f] : pages[f][i].state = "pending"

\* C28: the temporary directory of a run exists only while the run is inside
\* its with block: once process_file has returned, by whichever exit, it is
\* gone.
C28_TmpdirGoneOnReturn ==
    \A f \in Files :
        /\ pc[f] = "done" => ~tmpdir[f]
        /\ tmpdir[f] => pc[f] \in {"detect", "split", "collect", "update", "publish"}

C28_Witness ==
    \E f \in Files :
        /\ FailedFatally(f)
        /\ f \in DOMAIN progress_storage
        /\ page_count[f] > 0
        /\ ~tmpdir[f]

\* a returned call of the detector
DetectCallDone == call.fn = "has_embedded_text" /\ ret # None

\* opening the PDF raised, or reading a page raised before a page with text
\* was found
DetectFailed(pdf) ==
    \/ ~pdf.readable
    \/ \E j \in 1..Len(pdf.page_text) :
          /\ pdf.page_text[j] = GetTextRaises
          /\ \A i \in TextPages(pdf) : j < i

\* C29: the detector answers true exactly when a page has text that is not
\* whitespace, and answers false, raising nothing, when the PDF cannot be
\* opened or a page cannot be read.
C29_TrueIffSomePageHasText ==
    DetectCallDone =>
        /\ ret[1] \in BOOLEAN
        /\ DetectFailed(call.pdf) => ret[1] = FALSE
        /\ ~DetectFailed(call.pdf) => (ret[1] = TRUE <=> TextPages(call.pdf) # {})

C29_Witness ==
    /\ DetectCallDone
    /\ Len(call.pdf.page_text) = 3
    /\ call.pdf.readable
    /\ call.pdf.page_text[1] = " "
    /\ call.pdf.page_text[2] = GetTextRaises
    /\ call.pdf.page_text[3] = "text"
    /\ ret = Some(FALSE)

\* C30: the final counter and the status completed become visible to pollers
\* in one step: a poll answered with status completed carries pages_processed
\* equal to page_count.
C30_PollSeesCompletedWithAllPages ==
    (resp.op = "progress" /\ resp.body.status = "completed") =>
        resp.body.pages_processed = resp.body.page_count

\* C31: from the state in which cleanup_file has answered for an id, no step
\* puts an entry for the id back into progress_storage or recent_results, the
\* document's pipeline still running or not, and a poll of the id answers
\* page_count 0.
C31_CleanedStaysClean ==
    [][\A id \in Files :
          (resp.op = "cleanup" /\ resp.id = id) =>
              /\ id \notin DOMAIN progress_storage'
              /\ id \notin DOMAIN recent_results'
              /\ (resp'.op = "progress" /\ resp'.id = id) =>
                    resp'.body.page_count = 0]_vars

\* C32: a record is created by the initialisation step of its own pipeline
\* and by nothing else (an update for a document without a record makes
\* none), and a record that is there changes only in a step of its own
\* document's pipeline, which leaves its page_count alone.
C32_UpdatesTouchOwnRecordOnly ==
    [][\A f \in Files :
          /\ (f \notin DOMAIN progress_storage /\ f \in DOMAIN progress_storage') =>
                (pc[f] = "detect" /\ pc'[f] = "split")
          /\ (/\ f \in DOMAIN progress_storage
              /\ f \in DOMAIN progress_storage'
              /\ progress_storage'[f] # progress_storage[f]) =>
                /\ pc'[f] # pc[f]
                /\ pc[f] \in {"split", "collect", "update"}
                /\ progress_storage'[f].page_count = progress_storage[f].page_count]_vars

\* C32 witness: the final update of f1 ran with f1's record cleaned up, and the
\* record of f2 stands as it was created
C32_Witness ==
    /\ pc["f1"] = "publish"
    /\ "f1" \notin DOMAIN progress_storage
    /\ page_errors["f1"] # <<>>
    /\ "f2" \in DOMAIN progress_storage
    /\ progress_storage["f2"].status = "processing"
    /\ progress_storage["f2"].pages_processed = 0
    /\ progress_storage["f2"].failed_pages = <<>>

====
